---- MODULE Spec2Model ----
(***************************************************************************)
(* A model of lit_llama/lora_new.py: the LoRA linear layer                 *)
(* MergedLinearFull (construction, train-mode switch with weight merge,    *)
(* forward), the lora() context manager that swaps the attention class,    *)
(* mark_only_lora_as_trainable and lora_state_dict.                        *)
(*                                                                         *)
(* Tensors are sequences of rows of integers; tensor arithmetic is exact   *)
(* (the rounding of the tensor library is not part of this model).         *)
(***************************************************************************)
EXTENDS Integers, Sequences, FiniteSets, TLC

VARIABLES
    built,      \* a MergedLinearFull object exists (its __init__ returned)
    layer,      \* the fields of that object (self)
    ctor,       \* history: out_features and enable_lora of the last __init__ call
    W0,         \* history: weight.data when __init__ returned
    y,          \* result of the last forward call, <<>> if it raised
    hist,       \* history: the last consecutive calls of train (two at most),
                \* each with the weight and the flag it started from
    err,        \* outcome of the last call: "none" or the exception it raised
    llama_CausalSelfAttention,  \* the module attribute llama.CausalSelfAttention
    lora_config,                \* the class attribute CausalSelfAttention.lora_config
    frame,      \* the lora() generator: its position, arguments and local
    models,     \* history: what the last model construction instantiated, and where
    params,     \* named_parameters() of a model: name -> requires_grad
    modules,    \* modules() of that model
    prior,      \* history: params when mark_only_lora_as_trainable was called
    policy,     \* history: the bias argument of that call, "" if none since
                \* the flags were last set by hand
    state_dict, \* state_dict() of that model: name -> tensor
    to_return,  \* the dictionary the last lora_state_dict call returned,
                \* <<>> if it raised
    selection   \* history: the bias argument of that call, "" if none yet

layerVars  == <<built, layer, ctor, W0, y, hist>>
scopeVars  == <<llama_CausalSelfAttention, lora_config, frame, models>>
filterVars == <<params, modules, prior, policy, state_dict, to_return, selection>>
vars       == <<layerVars, err, scopeVars, filterVars>>

----------------------------------------------------------------------------
(* Bounds of the model.                                                    *)

\* tensor entries drawn by the initialisers and by the optimiser: 0..MaxVal
MaxVal == 1
Vals == 0..MaxVal
\* ranks r drawn for a layer
Ranks == {0, 1}
\* <<in_features, out_features>>
Shapes == {<<1, 3>>, <<2, 2>>}
EnableLoras == {<<FALSE>>, <<TRUE>>, <<TRUE, FALSE, TRUE>>}
\* lora_dropout, in percent
DropoutRates == {0, 50}

----------------------------------------------------------------------------
(* Tensor algebra (torch), as far as the layer uses it.                    *)

Matrices(rows, cols, S) == [1..rows -> [1..cols -> S]]

Rows(m) == Len(m)
Cols(m) == IF Len(m) = 0 THEN 0 ELSE Len(m[1])

\* a tensor given entry by entry, stored as a tuple of row tuples
Tensor(rows, cols, entry) ==
    LET row(i) == SubSeq([j \in 1..cols |-> entry[i, j]], 1, cols)
    IN  SubSeq([i \in 1..rows |-> row(i)], 1, rows)

RECURSIVE SumTo(_, _)
\* term[1] + ... + term[n]
SumTo(term, n) == IF n = 0 THEN 0 ELSE term[n] + SumTo(term, n - 1)

\* w.T
Transpose(w) ==
    Tensor(Cols(w), Rows(w), [j \in 1..Cols(w), i \in 1..Rows(w) |-> w[i][j]])

\* F.linear(x, w, bias): x is (T, in), w is (out, in), the result is (T, out)
F_linear(x, w, b) ==
    Tensor(Rows(x), Rows(w),
           [t \in 1..Rows(x), o \in 1..Rows(w) |->
               SumTo([k \in 1..Cols(w) |-> x[t][k] * w[o][k]], Cols(w))
                 + (IF b = <<>> THEN 0 ELSE b[o])])

\* F.conv1d(input, kernel) with a kernel of width 1, one group: input is
\* (channels, L), kernel is (out, channels) once its last axis of size 1 is
\* dropped, the result is (out, L)
F_conv1d(input, kernel) ==
    Tensor(Rows(kernel), Cols(input),
           [o \in 1..Rows(kernel), l \in 1..Cols(input) |->
               SumTo([c \in 1..Rows(input) |-> kernel[o][c] * input[c][l]],
                     Rows(input))])

\* m * s
Scale(m, s) ==
    Tensor(Rows(m), Cols(m), [i \in 1..Rows(m), j \in 1..Cols(m) |-> m[i][j] * s])

\* whether w += d is accepted: d must broadcast to the shape of w
Broadcastable(w, d) ==
    /\ Rows(d) \in {Rows(w), 1}
    /\ Cols(d) \in {Cols(w), 1}

\* w += d
IAdd(w, d) ==
    Tensor(Rows(w), Cols(w),
           [i \in 1..Rows(w), j \in 1..Cols(w) |->
               w[i][j] + d[IF Rows(d) = 1 THEN 1 ELSE i][IF Cols(d) = 1 THEN 1 ELSE j]])

\* new_zeros((rows, cols))
Zeros(rows, cols) == Tensor(rows, cols, [i \in 1..rows, j \in 1..cols |-> 0])

\* any(enable_lora)
any(s) == \E i \in 1..Len(s) : s[i]

----------------------------------------------------------------------------
(* MergedLinearFull                                                        *)

\* nn.Linear.reset_parameters draws weight and bias at random: the draw
\* modelled is a weight that is not symmetric and whose rows differ
WeightInits(out, in) ==
    { Tensor(out, in, [o \in 1..out, i \in 1..in |->
                          IF o = 1 /\ i = in THEN MaxVal ELSE o % 2]) }

\* bias=False gives None, written <<>>
BiasInits(out) == { <<>>, [o \in 1..out |-> 1] }

\* lora_alpha is drawn among the multiples of r, so that lora_alpha / r is an
\* integer and \div is the exact quotient
Alphas(r) == IF r = 0 THEN {1} ELSE {r, 2 * r}

NoLayer ==
    [in_features |-> 0, out_features |-> 0, r |-> 0, lora_alpha |-> 0,
     lora_dropout |-> 0, merged |-> FALSE, merge_weights |-> FALSE,
     enable_lora |-> <<>>, fan_in_fan_out |-> FALSE, has_lora |-> FALSE,
     lora_A |-> <<>>, lora_B |-> <<>>, scaling |-> 0,
     weight |-> <<>>, bias |-> <<>>, training |-> FALSE]

\* the constructor with the flag set from merge_weights
init_merged(in, out, r, alpha, dropout, enable, fan, mw, w, b, a) ==
    LET lora == r > 0 /\ any(enable) IN
    [in_features |-> in, out_features |-> out, r |-> r, lora_alpha |-> alpha,
     lora_dropout |-> dropout, merged |-> mw, merge_weights |-> mw,
     enable_lora |-> enable, fan_in_fan_out |-> fan, has_lora |-> lora,
     lora_A |-> IF lora THEN a ELSE <<>>,
     lora_B |-> IF lora THEN Zeros(out, r) ELSE <<>>,
     scaling |-> IF lora THEN alpha \div r ELSE 0,
     weight |-> IF fan THEN Transpose(w) ELSE w,
     bias |-> b, training |-> TRUE]

\* LoRALayerFull.__init__ and MergedLinearFull.__init__ up to their return:
\* w, b and a are the random draws of reset_parameters (the weight, the bias
\* and lora_A); lora_B is zeroed
init(in, out, r, alpha, dropout, enable, fan, mw, w, b, a) ==
    LET lora == r > 0 /\ any(enable) IN
    [in_features |-> in, out_features |-> out, r |-> r, lora_alpha |-> alpha,
     lora_dropout |-> dropout, merged |-> FALSE, merge_weights |-> mw,
     enable_lora |-> enable, fan_in_fan_out |-> fan, has_lora |-> lora,
     lora_A |-> IF lora THEN a ELSE <<>>,
     lora_B |-> IF lora THEN Zeros(out, r) ELSE <<>>,
     scaling |-> IF lora THEN alpha \div r ELSE 0,
     weight |-> IF fan THEN Transpose(w) ELSE w,
     bias |-> b, training |-> TRUE]

\* the assert compiled away
init_unchecked(out, enable) == FALSE

\* the assert of __init__
init_raises(out, enable) == out % Len(enable) # 0

\* the local function T of train and of forward
T(self, w) == IF self.fan_in_fan_out THEN Transpose(w) ELSE w

\* update with the sign left out: the unmerge adds the update again
update_unsigned(self, mode) ==
    Scale(F_conv1d(self.lora_A, self.lora_B), self.scaling)

\* the update train adds to weight.data: sign * delta_w * self.scaling
update(self, mode) ==
    LET delta_w == F_conv1d(self.lora_A, self.lora_B)
        sign    == IF mode THEN -1 ELSE 1
    IN  Scale(Scale(delta_w, sign), self.scaling)

\* should without its mode case: "not self.merged" whatever the mode
should_ignoring_mode(self, mode) == ~self.merged

\* self.merged if mode else not self.merged
should(self, mode) == IF mode THEN self.merged ELSE ~self.merged

\* train raises when the in-place addition is refused: delta_w is
\* (out_features, in_features) whatever the layout of weight.data
train_raises(self, mode) ==
    /\ self.merge_weights /\ should(self, mode)
    /\ self.r > 0 /\ any(self.enable_lora)
    /\ ~Broadcastable(self.weight, update(self, mode))

\* train without the assignment to self.merged
train_keeping_flag(self, mode) ==
    LET s1 == [self EXCEPT !.training = mode] IN
    IF /\ self.merge_weights /\ should(self, mode)
       /\ self.r > 0 /\ any(self.enable_lora)
       /\ Broadcastable(self.weight, update(self, mode))
    THEN [s1 EXCEPT !.weight = IAdd(self.weight, update(self, mode))]
    ELSE s1

\* train without its test of self.merge_weights
train_ignoring_merge_weights(self, mode) ==
    LET s1 == [self EXCEPT !.training = mode] IN
    IF should(self, mode)
    THEN IF self.r > 0 /\ any(self.enable_lora)
         THEN IF Broadcastable(self.weight, update(self, mode))
              THEN [s1 EXCEPT !.weight = IAdd(self.weight, update(self, mode)),
                              !.merged = ~mode]
              ELSE s1
         ELSE [s1 EXCEPT !.merged = ~mode]
    ELSE s1

\* MergedLinearFull.train: the object after the call. nn.Linear.train has set
\* the mode before anything can raise
train(self, mode) ==
    LET s1 == [self EXCEPT !.training = mode] IN
    IF self.merge_weights /\ should(self, mode)
    THEN IF self.r > 0 /\ any(self.enable_lora)
         THEN IF Broadcastable(self.weight, update(self, mode))
              THEN [s1 EXCEPT !.weight = IAdd(self.weight, update(self, mode)),
                              !.merged = ~mode]
              ELSE s1
         ELSE [s1 EXCEPT !.merged = ~mode]
    ELSE s1

\* self.lora_dropout(x): the identity unless the rate is positive and the
\* module is in training mode; then every entry whose mask bit is off is
\* zeroed and the others are scaled by 1 / (1 - p)
Dropout(self, x, mask) ==
    IF self.lora_dropout > 0 /\ self.training
    THEN Tensor(Rows(x), Cols(x),
                [t \in 1..Rows(x), k \in 1..Cols(x) |->
                    IF mask[k] THEN (x[t][k] * 100) \div (100 - self.lora_dropout)
                    ELSE 0])
    ELSE x

\* forward raises AttributeError when it reads a lora_A that __init__ never made
forward_raises(self) == ~self.merged /\ self.r > 0 /\ ~self.has_lora

\* MergedLinearFull.forward, where it does not raise
forward(self, x, mask) ==
    LET result == F_linear(x, T(self, self.weight), self.bias) IN
    IF self.merged
    THEN result
    ELSE IF self.r > 0
         THEN LET after_A == F_linear(Dropout(self, x, mask), self.lora_A, <<>>)
                  after_B == Transpose(F_conv1d(Transpose(after_A), self.lora_B))
              IN  IAdd(result, Scale(after_B, self.scaling))
         ELSE result

\* inputs x of forward: one row of in_features entries, each 0 or 1
Inputs(self) == Matrices(1, self.in_features, {0, 1})
\* dropout masks: all bits on where dropout is the identity
Masks(self) ==
    IF self.lora_dropout > 0 /\ self.training
    THEN [1..self.in_features -> BOOLEAN]
    ELSE {[k \in 1..self.in_features |-> TRUE]}

\* the last two calls of train, when consecutive
Push(h, e) == IF Len(h) = 0 THEN <<e>> ELSE <<h[Len(h)], e>>

Construct ==
    /\ ~built
    /\ \E shape \in Shapes, r \in Ranks, dropout \in DropoutRates,
          enable \in EnableLoras, fan \in BOOLEAN, mw \in BOOLEAN :
       \E alpha \in Alphas(r),
          w \in WeightInits(shape[2], shape[1]), b \in BiasInits(shape[2]),
          a \in Matrices(r, shape[1], Vals) :
          /\ IF init_raises(shape[2], enable)
             THEN /\ err' = "AssertionError"
                  /\ UNCHANGED <<built, layer, W0>>
             ELSE /\ built' = TRUE
                  /\ layer' = init(shape[1], shape[2], r, alpha, dropout, enable, fan, mw, w, b, a)
                  /\ W0' = layer'.weight
                  /\ err' = "none"
          /\ ctor' = [out_features |-> shape[2], enable_lora |-> enable]
    /\ y' = <<>>
    /\ hist' = <<>>
    /\ UNCHANGED <<scopeVars, filterVars>>

\* The optimiser (or a checkpoint load) overwrites the factors, one parameter
\* tensor at a time, while the layer is in training mode.
Fit_lora_A ==
    /\ built /\ layer.has_lora /\ layer.training
    /\ \E a \in Matrices(layer.r, layer.in_features, Vals) :
          layer' = [layer EXCEPT !.lora_A = a]
    /\ err' = "none"
    /\ y' = <<>>
    /\ hist' = <<>>
    /\ UNCHANGED <<built, ctor, W0, scopeVars, filterVars>>

Fit_lora_B ==
    /\ built /\ layer.has_lora /\ layer.training
    /\ \E b \in Matrices(layer.out_features, layer.r, Vals) :
          layer' = [layer EXCEPT !.lora_B = b]
    /\ err' = "none"
    /\ y' = <<>>
    /\ hist' = <<>>
    /\ UNCHANGED <<built, ctor, W0, scopeVars, filterVars>>

SetTrainingMode ==
    /\ built
    /\ \E mode \in BOOLEAN :
        /\ layer' = train(layer, mode)
        /\ err' = IF train_raises(layer, mode) THEN "RuntimeError" ELSE "none"
        /\ hist' = Push(hist, [mode |-> mode, weight |-> layer.weight,
                               merged |-> layer.merged])
    /\ y' = <<>>
    /\ UNCHANGED <<built, ctor, W0, scopeVars, filterVars>>

Forward ==
    /\ built
    /\ \E x \in Inputs(layer), mask \in Masks(layer) :
        IF forward_raises(layer)
        THEN y' = <<>> /\ err' = "AttributeError"
        ELSE y' = forward(layer, x, mask) /\ err' = "none"
    /\ hist' = <<>>
    /\ UNCHANGED <<built, layer, ctor, W0, scopeVars, filterVars>>

----------------------------------------------------------------------------
(* The lora() context manager and the attention class it installs.         *)

\* the two classes llama.CausalSelfAttention can refer to
Baseline == "llama.CausalSelfAttention"
Adapted  == "lora.CausalSelfAttention"

\* LoRAConfig(r, alpha, dropout); None is written <<>>
LoRAConfig(r, alpha, dropout) == <<r, alpha, dropout>>

NoFrame ==
    [pc |-> "none", enabled |-> FALSE, config |-> <<>>, causal_self_attention |-> ""]

\* with lora(r, alpha, dropout, enabled): the generator runs to its yield.
\* Scopes do not nest: none is entered while another is suspended in its body
Enter ==
    /\ frame.pc # "body"
    /\ \E r \in Ranks, dropout \in DropoutRates, enabled \in BOOLEAN :
       \E alpha \in Alphas(r) :
          IF ~enabled
          THEN /\ frame' = [pc |-> "body", enabled |-> FALSE,
                            config |-> LoRAConfig(r, alpha, dropout),
                            causal_self_attention |-> ""]
               /\ UNCHANGED <<llama_CausalSelfAttention, lora_config>>
          ELSE /\ lora_config' = LoRAConfig(r, alpha, dropout)
               /\ frame' = [pc |-> "body", enabled |-> TRUE,
                            config |-> LoRAConfig(r, alpha, dropout),
                            causal_self_attention |-> llama_CausalSelfAttention]
               /\ llama_CausalSelfAttention' = Adapted
    /\ err' = "none"
    /\ UNCHANGED <<models, layerVars, filterVars>>

\* the body of the with statement ends normally: the generator is resumed
\* after its yield and runs to its end
ExitNormal ==
    /\ frame.pc = "body"
    /\ IF frame.enabled
       THEN /\ llama_CausalSelfAttention' = frame.causal_self_attention
            /\ lora_config' = <<>>
       ELSE UNCHANGED <<llama_CausalSelfAttention, lora_config>>
    /\ frame' = [frame EXCEPT !.pc = "returned"]
    /\ err' = "none"
    /\ UNCHANGED <<models, layerVars, filterVars>>

\* the body raises: the exception is thrown into the generator at its yield,
\* which no try statement encloses, so the generator ends there
ExitRaise ==
    /\ frame.pc = "body"
    /\ frame' = [frame EXCEPT !.pc = "raised"]
    /\ err' = "Exception"
    /\ UNCHANGED <<llama_CausalSelfAttention, lora_config, models, layerVars, filterVars>>

\* where a model construction takes place
Where ==
    IF frame.pc # "body" THEN "outside"
    ELSE IF frame.enabled THEN "inside_enabled" ELSE "inside_disabled"

\* A model is constructed: its blocks instantiate whatever class
\* llama.CausalSelfAttention refers to. The adapted class reads the class
\* attribute lora_config for the arguments of its c_attn, and raises
\* AttributeError when that is None
BuildModel ==
    /\ models' = << [attn   |-> llama_CausalSelfAttention,
                     c_attn |-> IF llama_CausalSelfAttention = Adapted
                                THEN lora_config ELSE <<>>,
                     where  |-> Where,
                     scope  |-> IF frame.pc = "body" THEN frame.config ELSE <<>>] >>
    /\ err' = IF llama_CausalSelfAttention = Adapted /\ lora_config = <<>>
              THEN "AttributeError" ELSE "none"
    /\ UNCHANGED <<llama_CausalSelfAttention, lora_config, frame, layerVars, filterVars>>

----------------------------------------------------------------------------
(* mark_only_lora_as_trainable                                             *)

\* Parameter names are tuples of tokens whose concatenation is the dotted
\* name; "lora_" and "bias" are tokens of their own, so that the substring
\* tests of the code are tests for a token
Contains(n, token) == \E i \in 1..Len(n) : n[i] = token

\* the layers a model is built from: a MergedLinearFull with factors, a
\* MergedLinearFull built with r = 0, and a plain nn.Linear, each with a bias
Universe ==
    { [name |-> "c_attn", lora_layer |-> TRUE,  has_lora |-> TRUE,  has_bias |-> TRUE],
      [name |-> "c_fc",   lora_layer |-> TRUE,  has_lora |-> FALSE, has_bias |-> TRUE],
      [name |-> "c_proj", lora_layer |-> FALSE, has_lora |-> FALSE, has_bias |-> TRUE] }

weight_of(m) == <<m.name, ".", "weight">>
bias_of(m)   == <<m.name, ".", "bias">>
lora_A_of(m) == <<m.name, ".", "lora_", "A">>
lora_B_of(m) == <<m.name, ".", "lora_", "B">>

\* the names of m's parameters
Parameters(m) ==
    {weight_of(m)}
      \cup (IF m.has_bias THEN {bias_of(m)} ELSE {})
      \cup (IF m.has_lora THEN {lora_A_of(m), lora_B_of(m)} ELSE {})

\* named_parameters() of a model right after construction: every parameter
\* requires grad, but the weight of a layer that owns factors
named_parameters(mods) ==
    [n \in UNION {Parameters(m) : m \in mods} |->
        ~(\E m \in mods : m.has_lora /\ n = weight_of(m))]

\* the freezing loop with its test inverted
freeze_lora(p) ==
    [n \in DOMAIN p |-> IF Contains(n, "lora_") THEN FALSE ELSE p[n]]

\* the first loop: freeze all layers except LoRA's
freeze(p) ==
    [n \in DOMAIN p |-> IF ~Contains(n, "lora_") THEN FALSE ELSE p[n]]

Policies == {"none", "all", "lora_only", "bogus"}

\* the bias values the function accepts; any other raises NotImplementedError
Known == {"none", "all", "lora_only"}

\* mark_only_lora_as_trainable(model, bias): requires_grad of every
\* parameter when the call returns or raises
mark_only_lora_as_trainable(p, mods, bias) ==
    LET frozen == freeze(p) IN
    IF bias = "none" THEN frozen
    ELSE IF bias = "all"
    THEN [n \in DOMAIN p |-> IF Contains(n, "bias") THEN TRUE ELSE frozen[n]]
    ELSE IF bias = "lora_only"
    THEN [n \in DOMAIN p |->
            IF \E m \in mods : m.lora_layer /\ m.has_bias /\ n = bias_of(m)
            THEN TRUE ELSE frozen[n]]
    ELSE frozen

\* state_dict() of a model: every parameter under its name. A tensor stands
\* as one number, which differs between a factor and a weight or bias
model_state_dict(mods, seed) ==
    [n \in UNION {Parameters(m) : m \in mods} |-> seed + Len(n)]

\* k.split('lora_')[0]: what precedes the first occurrence of the marker
split_lora_(k) ==
    LET i == CHOOSE i \in 1..Len(k) :
                 k[i] = "lora_" /\ \A j \in 1..(i - 1) : k[j] # "lora_"
    IN  SubSeq(k, 1, i - 1)

\* the selection with the branch of 'all' taken for 'lora_only' too
lora_state_dict_all(my_state_dict, bias) ==
    IF bias \in {"all", "lora_only"}
    THEN [k \in {k \in DOMAIN my_state_dict :
                    Contains(k, "lora_") \/ Contains(k, "bias")} |-> my_state_dict[k]]
    ELSE IF bias = "none"
    THEN [k \in {k \in DOMAIN my_state_dict : Contains(k, "lora_")} |-> my_state_dict[k]]
    ELSE <<>>

\* lora_state_dict(model, bias): the dictionary returned, <<>> when the call
\* raises NotImplementedError
lora_state_dict(my_state_dict, bias) ==
    LET lora == {k \in DOMAIN my_state_dict : Contains(k, "lora_")} IN
    IF bias = "none"
    THEN [k \in lora |-> my_state_dict[k]]
    ELSE IF bias = "all"
    THEN [k \in {k \in DOMAIN my_state_dict :
                    Contains(k, "lora_") \/ Contains(k, "bias")} |-> my_state_dict[k]]
    ELSE IF bias = "lora_only"
    THEN LET bias_names == {split_lora_(k) \o <<"bias">> : k \in lora}
         IN  [k \in lora \cup (bias_names \cap DOMAIN my_state_dict) |-> my_state_dict[k]]
    ELSE <<>>

\* a model is constructed from some of the layers
BuildNet ==
    /\ modules = {}
    /\ \E mods \in (SUBSET Universe) \ {{}} :
        /\ modules' = mods
        /\ params' = named_parameters(mods)
        /\ \E seed \in Vals : state_dict' = model_state_dict(mods, seed)
    /\ err' = "none"
    /\ UNCHANGED <<prior, policy, to_return, selection, layerVars, scopeVars>>

\* user code sets p.requires_grad of one parameter
SetRequiresGrad ==
    /\ modules # {}
    /\ \E n \in DOMAIN params : params' = [params EXCEPT ![n] = ~params[n]]
    /\ prior' = <<>>
    /\ policy' = ""
    /\ err' = "none"
    /\ UNCHANGED <<modules, state_dict, to_return, selection, layerVars, scopeVars>>

Apply ==
    /\ modules # {}
    /\ \E bias \in Policies :
        /\ params' = mark_only_lora_as_trainable(params, modules, bias)
        /\ err' = IF bias \in Known THEN "none" ELSE "NotImplementedError"
        /\ policy' = bias
    /\ prior' = params
    /\ UNCHANGED <<modules, state_dict, to_return, selection, layerVars, scopeVars>>

\* lora_state_dict(model, bias) on the state_dict() of the model
Select ==
    /\ modules # {}
    /\ \E bias \in Policies :
        /\ to_return' = lora_state_dict(state_dict, bias)
        /\ err' = IF bias \in Known THEN "none" ELSE "NotImplementedError"
        /\ selection' = bias
    /\ UNCHANGED <<params, modules, prior, policy, state_dict, layerVars, scopeVars>>

----------------------------------------------------------------------------

InitLayer ==
    /\ built = FALSE
    /\ layer = NoLayer
    /\ ctor = [out_features |-> 0, enable_lora |-> <<>>]
    /\ W0 = <<>>
    /\ y = <<>>
    /\ hist = <<>>

InitScope ==
    /\ llama_CausalSelfAttention = Baseline
    /\ lora_config = <<>>
    /\ frame = NoFrame
    /\ models = <<>>

InitFilter ==
    /\ params = <<>>
    /\ modules = {}
    /\ prior = <<>>
    /\ policy = ""
    /\ state_dict = <<>>
    /\ to_return = <<>>
    /\ selection = ""

Init == InitLayer /\ InitScope /\ InitFilter /\ err = "none"

Next ==
    \/ Construct
    \/ Fit_lora_A
    \/ Fit_lora_B
    \/ SetTrainingMode
    \/ Forward

Spec == Init /\ [][Next]_vars

NextScope ==
    \/ Enter
    \/ ExitNormal
    \/ ExitRaise
    \/ BuildModel

SpecScope == Init /\ [][NextScope]_vars

NextFilter ==
    \/ BuildNet
    \/ SetRequiresGrad
    \/ Apply
    \/ Select

SpecFilter == Init /\ [][NextFilter]_vars

\* the calls that validate their arguments. The layer and the filters share
\* no state, so a behaviour goes on to the filters from a construction that
\* failed and ends at one that succeeded
NextConfig ==
    \/ modules = {} /\ Construct
    \/ ~built /\ BuildNet
    \/ Apply
    \/ Select

SpecConfig == Init /\ [][NextConfig]_vars

----------------------------------------------------------------------------
(* Claims about the layer, checked under Spec.                             *)

\* the merge-eligibility condition of the merge transition
Eligible(self) == self.merge_weights /\ self.r > 0 /\ any(self.enable_lora)

\* the scaled low-rank update (lora_alpha / r) * (lora_B x lora_A), an
\* (out_features, in_features) matrix
Delta(self) ==
    [o \in 1..self.out_features |->
        [i \in 1..self.in_features |->
            (self.lora_alpha \div self.r)
              * SumTo([k \in 1..self.r |-> self.lora_B[o][k] * self.lora_A[k][i]],
                      self.r)]]

\* the dropout mask with every bit on
NoDrop(self) == [k \in 1..self.in_features |-> TRUE]

\* the plain frozen projection x * W^T + bias
Plain(self, x) == F_linear(x, T(self, self.weight), self.bias)

\* C1: for a merge-eligible layer, after any sequence of SetTrainingMode
\* calls, the weight is W0 plus the scaled low-rank update when merged is
\* true and W0 when merged is false: the update is applied once or not at all.
C1_UpdateAppliedOnceOrNever ==
    (built /\ Eligible(layer)) =>
        IF layer.merged
        THEN layer.weight = IAdd(W0, Delta(layer))
        ELSE layer.weight = W0

\* an eligible layer with a non-zero update that was merged and then unmerged
C1_Witness ==
    /\ built /\ Eligible(layer) /\ ~layer.merged
    /\ Len(hist) = 2
    /\ hist[1].mode = FALSE /\ ~hist[1].merged
    /\ hist[2].mode = TRUE /\ hist[2].merged
    /\ hist[2].weight # W0

\* C2: for a layer with rank > 0 and dropout rate 0, and every input x, the
\* output of forward while unmerged equals the output of forward right after
\* SetTrainingMode(false) has merged the layer.
C2_MergeKeepsForward ==
    LET before == [layer EXCEPT !.weight = hist[Len(hist)].weight,
                                !.merged = hist[Len(hist)].merged]
    IN  ( /\ built /\ Len(hist) > 0
          /\ hist[Len(hist)].mode = FALSE /\ ~hist[Len(hist)].merged /\ layer.merged
          /\ layer.r > 0 /\ layer.lora_dropout = 0
          /\ ~forward_raises(before) ) =>
            \A x \in Inputs(layer) :
                forward(layer, x, NoDrop(layer)) = forward(before, x, NoDrop(layer))

\* the output indices of partition p of enable_lora (equal contiguous blocks)
Partition(self, p) ==
    LET size == self.out_features \div Len(self.enable_lora)
    IN  ((p - 1) * size + 1)..(p * size)

\* C3: with enable_lora = [true, false, true] and rank > 0, the low-rank
\* contribution to the output of forward, and the delta the merge adds to W,
\* are zero at every output index of the middle partition.
C3_MiddlePartitionUntouched ==
    (built /\ layer.enable_lora = <<TRUE, FALSE, TRUE>> /\ layer.r > 0) =>
        \A o \in Partition(layer, 2) :
            /\ ~layer.merged =>
                  \A x \in Inputs(layer), mask \in Masks(layer) :
                      forward(layer, x, mask)[1][o] = Plain(layer, x)[1][o]
            /\ layer.merged =>
                  T(layer, layer.weight)[o] = T(layer, W0)[o]

\* C4: starting unmerged, SetTrainingMode(false) followed by
\* SetTrainingMode(true) leaves the weight at its starting value and the
\* layer unmerged.
C4_RoundTrip ==
    ( /\ built /\ Len(hist) = 2
      /\ hist[1].mode = FALSE /\ ~hist[1].merged
      /\ hist[2].mode = TRUE ) =>
        /\ layer.weight = hist[1].weight
        /\ ~layer.merged

\* a round trip whose first call changed the weight
C4_Witness ==
    /\ built /\ Len(hist) = 2
    /\ hist[1].mode = FALSE /\ ~hist[1].merged
    /\ hist[2].mode = TRUE /\ hist[2].merged
    /\ hist[2].weight # hist[1].weight
    /\ layer.weight = hist[1].weight

\* C5: a second SetTrainingMode call with the same isTraining value leaves
\* the weight and the merged flag as the first call left them.
C5_SecondCallNoOp ==
    ( /\ built /\ Len(hist) = 2
      /\ hist[1].mode = hist[2].mode ) =>
        /\ layer.weight = hist[2].weight
        /\ layer.merged = hist[2].merged

\* two calls with isTraining = false, the first of which merged a non-zero update
C5_Witness ==
    /\ built /\ Len(hist) = 2
    /\ hist[1].mode = FALSE /\ hist[2].mode = FALSE
    /\ ~hist[1].merged /\ hist[2].merged /\ layer.merged
    /\ hist[2].weight # hist[1].weight

\* C6: a layer with rank 0 or with every partition disabled stays unmerged
\* whatever SetTrainingMode calls are made.
C6_IneligibleStaysUnmerged ==
    (built /\ (layer.r = 0 \/ ~any(layer.enable_lora))) => ~layer.merged

\* C7: for a layer with rank 0, or with every partition disabled, forward
\* succeeds and returns the plain frozen projection for every input, in
\* every reachable state.
C7_IneligibleForwardIsPlain ==
    (built /\ (layer.r = 0 \/ ~any(layer.enable_lora))) =>
        /\ ~forward_raises(layer)
        /\ \A x \in Inputs(layer), mask \in Masks(layer) :
              forward(layer, x, mask) = Plain(layer, x)

----------------------------------------------------------------------------
(* Claims about the lora() scope, checked under SpecScope.                 *)

\* C8: when an enabled scope is exited, normally or because its body raised,
\* llama.CausalSelfAttention is again what it was at entry and lora_config
\* is None.
C8_ExitRestores ==
    (frame.pc \in {"returned", "raised"} /\ frame.enabled) =>
        /\ llama_CausalSelfAttention = frame.causal_self_attention
        /\ lora_config = <<>>

\* C9: a model constructed inside an enabled scope gets the adapted attention
\* class, configured with that scope's (r, alpha, dropout); a model
\* constructed outside any scope, or inside a disabled one, gets the
\* baseline class.
C9_ScopeExactness ==
    \A i \in 1..Len(models) :
        IF models[i].where = "inside_enabled"
        THEN models[i].attn = Adapted /\ models[i].c_attn = models[i].scope
        ELSE models[i].attn = Baseline

----------------------------------------------------------------------------
(* Claims about mark_only_lora_as_trainable, checked under SpecFilter.     *)

\* the low-rank-factor marker in a parameter name
HasMarker(n) == Contains(n, "lora_")

\* n names the factor A or B of a layer of the model
IsFactor(n) == \E m \in modules : m.has_lora /\ n \in {lora_A_of(m), lora_B_of(m)}

\* C10 as stated: after Apply(model, "none"), whatever the flags were before,
\* every parameter without the marker is non-trainable and every low-rank
\* factor is trainable.
C10_AsStated ==
    policy = "none" =>
        \A n \in DOMAIN params :
            /\ ~HasMarker(n) => ~params[n]
            /\ IsFactor(n) => params[n]

\* C10 as amended: after Apply(model, "none"), every parameter without the
\* marker is non-trainable and every low-rank factor has the flag it had
\* before the call.
C10_FreezesOthersKeepsFactors ==
    policy = "none" =>
        \A n \in DOMAIN params :
            /\ ~HasMarker(n) => ~params[n]
            /\ IsFactor(n) => params[n] = prior[n]

\* Apply(model, "none") on a model where a parameter without the marker was
\* trainable, one factor was trainable and another was frozen
C10_Witness ==
    /\ policy = "none"
    /\ \E n \in DOMAIN params : ~HasMarker(n) /\ prior[n]
    /\ \E n \in DOMAIN params : IsFactor(n) /\ prior[n]
    /\ \E n \in DOMAIN params : IsFactor(n) /\ ~prior[n]

\* C11: after Apply(model, "lora_only"), a bias is trainable only if it
\* belongs to a layer that owns the factors A and B: the bias of an adaptable
\* layer built with rank 0 or with every partition disabled, and the bias of
\* a plain layer, are non-trainable.
C11_LoraOnlyBiasNeedsFactors ==
    policy = "lora_only" =>
        \A m \in modules :
            (m.has_bias /\ params[bias_of(m)]) => m.has_lora

----------------------------------------------------------------------------
(* Claims about lora_state_dict, checked under SpecFilter.                 *)

\* the keys of the factors A and B of the layers of the model
FactorKeys == {n \in DOMAIN state_dict : IsFactor(n)}

\* the keys of the biases of the layers of the model that satisfy has(m)
BiasKeys(has) == {bias_of(m) : m \in {m \in modules : m.has_bias /\ has[m]}}

\* C12: Select returns, under "none", exactly the low-rank-factor keys; under
\* "all", exactly those plus every bias key; under "lora_only", exactly the
\* factor keys plus the bias keys of the layers that have a returned factor
\* key; and each kept key maps to the value it has in the snapshot.
C12_SelectReturnsExactly ==
    /\ selection = "none" => DOMAIN to_return = FactorKeys
    /\ selection = "all" =>
          DOMAIN to_return = FactorKeys \cup BiasKeys([m \in modules |-> TRUE])
    /\ selection = "lora_only" =>
          DOMAIN to_return = FactorKeys \cup BiasKeys([m \in modules |-> m.has_lora])
    /\ selection \in Known =>
          \A k \in DOMAIN to_return : to_return[k] = state_dict[k]

\* Select(snapshot, "lora_only") on a model that has a layer with factors
\* and a bias, and layers with a bias and no factors
C12_Witness ==
    /\ selection = "lora_only"
    /\ modules = Universe
    /\ \E m \in modules : bias_of(m) \in DOMAIN to_return
    /\ \E m \in modules : m.has_bias /\ bias_of(m) \notin DOMAIN to_return

----------------------------------------------------------------------------
(* Claims about argument validation, checked under SpecConfig.             *)

\* the arguments of a constructor call whose number of partitions does not
\* divide out_features
NotDividing(c) ==
    /\ Len(c.enable_lora) > 0
    /\ c.out_features % Len(c.enable_lora) # 0

\* C13: a construction whose number of partitions does not divide
\* out_features ends in an error and yields no layer; Apply and Select with
\* a policy outside {none, all, lora_only} end in an error.
C13_ConfigurationErrors ==
    [][ /\ (NotDividing(ctor') /\ Construct) =>
              (err' = "AssertionError" /\ ~built')
        /\ (policy' \notin Known /\ Apply) => err' = "NotImplementedError"
        /\ (selection' \notin Known /\ Select) =>
              (err' = "NotImplementedError" /\ to_return' = <<>>) ]_vars

\* a construction with three partitions of two outputs has failed, and both
\* filters were then called with an unknown policy
C13_Witness ==
    /\ ~built
    /\ NotDividing(ctor)
    /\ policy \notin Known \cup {""}
    /\ selection \notin Known \cup {""}
    /\ err = "NotImplementedError"

----------------------------------------------------------------------------
(* Further claims about the filters, checked under SpecFilter.             *)

\* C14: when Apply fails because the policy is not recognised, every
\* parameter has the trainable flag it had before the call.
C14_FailedApplyChangesNothing ==
    policy \notin Known \cup {""} => params = prior

----------------------------------------------------------------------------
(* Further claims about the layer, checked under Spec.                     *)

\* C15: merged is false when __init__ returns, for every configuration, and
\* changes only in a call of train: no other step, forward among them,
\* changes it.
C15_MergedChangesOnlyInTrain ==
    [][ /\ (~built /\ built') => ~layer'.merged
        /\ (built /\ layer'.merged # layer.merged) => SetTrainingMode ]_vars

\* forward has run on a merged layer, which is still merged
C15_Witness ==
    /\ built /\ layer.merged
    /\ y # <<>> /\ hist = <<>>

\* output o of the scaled low-rank branch of forward on the input xd (x
\* after dropout): scaling * (xd * lora_A^T * lora_B^T)[o]
LowRank(self, xd, o) ==
    self.scaling
      * SumTo([k \in 1..self.r |->
                 self.lora_B[o][k]
                   * SumTo([i \in 1..self.in_features |->
                              self.lora_A[k][i] * xd[1][i]],
                           self.in_features)],
              self.r)

\* C16: for a layer with merge_weights false, rank > 0 and a partition
\* enabled, no sequence of SetTrainingMode calls changes the weight or sets
\* merged, and forward returns the base projection plus the scaled low-rank
\* branch, in training mode and in inference mode.
C16_NoMergeWithoutMergeWeights ==
    (built /\ ~layer.merge_weights /\ layer.r > 0 /\ any(layer.enable_lora)) =>
        /\ layer.weight = W0
        /\ ~layer.merged
        /\ \A x \in Inputs(layer), mask \in Masks(layer) :
              LET xd     == Dropout(layer, x, mask)
                  base   == Plain(layer, x)
                  result == forward(layer, x, mask)
              IN  \A o \in 1..layer.out_features :
                      result[1][o] = base[1][o] + LowRank(layer, xd, o)

\* such a layer, switched to inference mode by its last call of train, whose
\* low-rank branch is not zero
C16_Witness ==
    /\ built /\ ~layer.merge_weights /\ layer.r > 0 /\ any(layer.enable_lora)
    /\ Len(hist) > 0 /\ hist[Len(hist)].mode = FALSE /\ ~layer.training
    /\ \E x \in Inputs(layer) :
          forward(layer, x, NoDrop(layer)) # Plain(layer, x)

\* C17: for a merge-eligible layer, after any non-empty sequence of
\* SetTrainingMode calls, merged is the negation of the current training
\* mode: true exactly when the last call passed isTraining = false.
C17_MergedIsNotTraining ==
    (built /\ Eligible(layer) /\ Len(hist) > 0) =>
        /\ layer.merged = ~hist[Len(hist)].mode
        /\ layer.merged = ~layer.training

----------------------------------------------------------------------------
(* A claim about both filters, checked under SpecFilter.                   *)

\* C18: for each policy in {none, all, lora_only} and any model, every
\* parameter that Apply(model, policy) leaves or makes trainable is among the
\* keys that Select(snapshot of that model, policy) returns.
C18_TrainableIsSelected ==
    (policy \in Known /\ selection = policy) =>
        \A n \in DOMAIN params : params[n] => n \in DOMAIN to_return

----------------------------------------------------------------------------
(* A frame claim about train, checked under Spec.                          *)

\* C19: a call of train never changes lora_A, lora_B, the bias, r, scaling,
\* enable_lora or merge_weights, and it changes the weight only in a step in
\* which merged flips too: when a call leaves merged as it was, it leaves the
\* weight as it was.
C19_TrainFrame ==
    [][ (hist' # <<>> /\ SetTrainingMode) =>
          /\ layer'.lora_A = layer.lora_A
          /\ layer'.lora_B = layer.lora_B
          /\ layer'.bias = layer.bias
          /\ layer'.r = layer.r
          /\ layer'.scaling = layer.scaling
          /\ layer'.enable_lora = layer.enable_lora
          /\ layer'.merge_weights = layer.merge_weights
          /\ (layer'.merged = layer.merged => layer'.weight = layer.weight) ]_vars

\* the last call of train flipped merged and changed the weight, on a layer
\* with a bias
C19_Witness ==
    /\ built /\ Len(hist) > 0
    /\ hist[Len(hist)].merged # layer.merged
    /\ hist[Len(hist)].weight # layer.weight
    /\ layer.bias # <<>>

====
